---- MODULE Spec2Model ----
(***************************************************************************)
(* The Failover land of the Memory Pool System (failover.c): a Land that   *)
(* delegates to two child Lands, the primary and the secondary.            *)
(*                                                                         *)
(* Addresses are 0 .. MaxAddr-1 and the alignment is 1.  A range is the    *)
(* pair <<base, limit>> for the half-open interval [base, limit).  A child *)
(* Land is the set of the ranges it holds.  The children are external to   *)
(* failover.c: they follow the abstract Land contract.  The primary may    *)
(* refuse any mutation it could otherwise perform with a resource error;   *)
(* the secondary never needs to allocate.                                  *)
(***************************************************************************)
EXTENDS Integers, Sequences, FiniteSets

\* Size of the modelled address space.
MaxAddr == 3

VARIABLES
  primary,      \* fo->primary: the ranges held by the primary
  secondary,    \* fo->secondary: the ranges held by the secondary
  variety,      \* build variety: which assertions are compiled in
  disciplined,  \* history: every inserted range was disjoint from the free set
  inserted,     \* history: addresses inserted with ResOK and not removed since
  halted,       \* "none", or the assertion on which the process stopped
  call,         \* the last operation called and the children at its entry
  flushed,      \* the children as the initial LandFlush left them
  ret,          \* what the last operation returned to its caller
  trace         \* the calls the last operation made on its children

vars == <<primary, secondary, variety, disciplined, inserted, halted,
          call, flushed, ret, trace>>

----------------------------------------------------------------------------
(* Ranges (range.h) *)

Ranges == {r \in (0..MaxAddr) \X (0..MaxAddr) : r[1] < r[2]}

\* A result buffer the callee has not written.
Unset == <<-1, -1>>

RangeBase(r) == r[1]
RangeLimit(r) == r[2]
RangeSize(r) == r[2] - r[1]
RangeIsEmpty(r) == r[1] = r[2]
RangesOverlap(a, b) == a[1] < b[2] /\ b[1] < a[2]
RangesNest(outer, inner) == outer[1] <= inner[1] /\ inner[2] <= outer[2]
RangesEqual(a, b) == a[1] = b[1] /\ a[2] = b[2]

\* The addresses of a range, and of a Land.
Addrs(r) == r[1]..(r[2] - 1)
LandAddrs(L) == UNION {Addrs(r) : r \in L}

----------------------------------------------------------------------------
(* Result codes and build varieties *)

\* Resource errors the primary may return.  "MEMORY" is an allocation
\* failure; "LIMIT" is the non-allocation error failoverDelete's comment names.
PrimaryErrors == {"MEMORY", "LIMIT"}


\* Mutant: every error counts as an allocation failure.
ResIsAllocFailureAny(res) == res \notin {"OK", "FAIL"}

ResIsAllocFailure(res) == res \in {"MEMORY", "COMMIT_LIMIT", "RESOURCE"}

\* cool: AVER and AVER_CRITICAL checked; hot: AVER only; rash: neither.
Varieties == {"cool", "hot", "rash"}
AverOn(v) == v \in {"cool", "hot"}
AverCriticalOn(v) == v = "cool"

----------------------------------------------------------------------------
(* The child Lands *)

RECURSIVE SumSizes(_)
SumSizes(L) ==
  IF L = {} THEN 0
  ELSE LET r == CHOOSE q \in L : TRUE IN RangeSize(r) + SumSizes(L \ {r})

LandSize(L) == SumSizes(L)

\* A child call's outcome: the result code, the Land afterwards, and the
\* range written to the call's range result.
ChildOut(res, land, range) == [res |-> res, land |-> land, range |-> range]

\* The range that results from adding r to L, coalesced with its neighbours.
Coalesced(L, r) ==
  LET lefts == {q \in L : q[2] = r[1]}
      rights == {q \in L : q[1] = r[2]}
      b == IF lefts = {} THEN r[1] ELSE (CHOOSE q \in lefts : TRUE)[1]
      l == IF rights = {} THEN r[2] ELSE (CHOOSE q \in rights : TRUE)[2]
  IN <<b, l>>

InsertInto(L, r) ==
  LET n == Coalesced(L, r)
  IN ({q \in L : ~RangesNest(n, q)}) \cup {n}

\* LandInsert on a Land that may or may not (mayErr) run out of resources.
LandInsert(L, r, mayErr) ==
  IF \E q \in L : RangesOverlap(q, r)
  THEN {ChildOut("FAIL", L, Unset)}
  ELSE {ChildOut("OK", InsertInto(L, r), Coalesced(L, r))}
       \cup (IF mayErr THEN {ChildOut(e, L, Unset) : e \in PrimaryErrors} ELSE {})

DeleteFrom(L, old, r) ==
  (L \ {old}) \cup {f \in {<<old[1], r[1]>>, <<r[2], old[2]>>} : ~RangeIsEmpty(f)}

\* LandDelete: an error leaves the Land alone but reports the containing range.
LandDelete(L, r, mayErr) ==
  LET holders == {q \in L : RangesNest(q, r)}
  IN IF holders = {}
     THEN {ChildOut("FAIL", L, Unset)}
     ELSE LET old == CHOOSE q \in holders : TRUE
          IN {ChildOut("OK", DeleteFrom(L, old, r), old)}
             \cup (IF mayErr THEN {ChildOut(e, L, old) : e \in PrimaryErrors} ELSE {})

PrimaryInsert(P, r) == LandInsert(P, r, TRUE)
PrimaryDelete(P, r) == LandDelete(P, r, TRUE)
SecondaryInsert(S, r) == LandInsert(S, r, FALSE)
SecondaryDelete(S, r) == LandDelete(S, r, FALSE)

\* The find operations: the range found (range), the range that held it
\* (old), and the Land after the deletion findDelete asks for.
FindDeletes == {"NONE", "LOW", "HIGH", "ENTIRE"}

FindOut(found, land, range, old) ==
  [found |-> found, land |-> land, range |-> range, old |-> old]

FindDeleteRange(L, q, size, findDelete) ==
  LET range == CASE findDelete = "LOW" -> <<q[1], q[1] + size>>
                 [] findDelete = "HIGH" -> <<q[2] - size, q[2]>>
                 [] OTHER -> q
  IN FindOut(TRUE, IF findDelete = "NONE" THEN L ELSE DeleteFrom(L, q, range),
             range, q)

Fits(L, size) == {q \in L : RangeSize(q) >= size}

LandFindFirst(L, size, findDelete) ==
  IF Fits(L, size) = {} THEN FindOut(FALSE, L, Unset, Unset)
  ELSE FindDeleteRange(L, CHOOSE q \in Fits(L, size) :
                            \A o \in Fits(L, size) : q[1] <= o[1],
                       size, findDelete)

LandFindLast(L, size, findDelete) ==
  IF Fits(L, size) = {} THEN FindOut(FALSE, L, Unset, Unset)
  ELSE FindDeleteRange(L, CHOOSE q \in Fits(L, size) :
                            \A o \in Fits(L, size) : q[1] >= o[1],
                       size, findDelete)

LandFindLargest(L, size, findDelete) ==
  IF Fits(L, size) = {} THEN FindOut(FALSE, L, Unset, Unset)
  ELSE LET big == {q \in L : \A o \in L : RangeSize(q) >= RangeSize(o)}
       IN FindDeleteRange(L, CHOOSE q \in big : \A o \in big : q[1] <= o[1],
                          size, findDelete)

\* LandFindInZones(found, range, oldRange, land, size, zoneSet, high): the
\* lowest (the highest, if high) run of size addresses of one range of the
\* land that lies wholly in the zones of zoneSet is found and taken out of
\* the land.  The addresses are striped over the zones one by one.  A land
\* that cannot answer returns a result code and leaves the found flag and the
\* ranges as they were.
Zones == {0, 1}
ZoneSets == (SUBSET Zones) \ {{}}
ZoneOf(a) == a % Cardinality(Zones)

ZoneOut(res, found, land, range, old) ==
  [res |-> res, found |-> found, land |-> land, range |-> range, old |-> old]

InZones(L, size, zoneSet) ==
  {c \in UNION {{<<b, b + size>> : b \in q[1]..(q[2] - size)} : q \in L} :
     \A a \in Addrs(c) : ZoneOf(a) \in zoneSet}

LandFindInZones(L, size, zoneSet, high, found, errors) ==
  LET fits == InZones(L, size, zoneSet)
  IN {ZoneOut(e, found, L, Unset, Unset) : e \in errors}
     \cup (IF fits = {} THEN {ZoneOut("OK", FALSE, L, Unset, Unset)}
           ELSE LET c == CHOOSE x \in fits :
                           \A o \in fits : IF high THEN x[1] >= o[1] ELSE x[1] <= o[1]
                    old == CHOOSE q \in L : RangesNest(q, c)
                IN {ZoneOut("OK", TRUE, DeleteFrom(L, old, c), c, old)})

\* The primary may be short of memory; the secondary needs no memory, but
\* may have no zones.  (failoverFindInZones tells ResOK from any other
\* result and nothing else, so one other result for each child is enough.)
PrimaryFindInZones(P, size, zoneSet, high, found) ==
  LandFindInZones(P, size, zoneSet, high, found, {"MEMORY"})
SecondaryFindInZones(S, size, zoneSet, high, found) ==
  LandFindInZones(S, size, zoneSet, high, found, {"UNIMPL"})

\* LandFlush(dest, src): every range of src, in address order, is offered to
\* dest and leaves src if dest accepts it.  The set of possible <<dest, src>>.
RECURSIVE FlushFrom(_, _, _)
FlushFrom(P, S, todo) ==
  IF todo = {} THEN {<<P, S>>}
  ELSE LET r == CHOOSE q \in todo : \A o \in todo : q[1] <= o[1]
       IN UNION {FlushFrom(o.land, IF o.res = "OK" THEN S \ {r} ELSE S, todo \ {r})
                 : o \in PrimaryInsert(P, r)}

LandFlush(P, S) == FlushFrom(P, S, S)

\* The steal variants get the memory for the land's own structures out of
\* the range they are given, so they do not fail for want of it: the result
\* is ResOK or ResFAIL, and rangeIO comes back clipped by what was taken.
\* A land short of memory takes one address from the base of the range.
StealOut(res, land, range, io) == [res |-> res, land |-> land, range |-> range, io |-> io]

Clipped(r) == <<r[1] + 1, r[2]>>

LandInsertSteal(L, r, mayErr) ==
  IF \E q \in L : RangesOverlap(q, r) THEN {StealOut("FAIL", L, Unset, r)}
  ELSE {StealOut("OK", InsertInto(L, r), Coalesced(L, r), r)}
       \cup (IF ~mayErr THEN {}
             ELSE IF RangeIsEmpty(Clipped(r))
             THEN {StealOut("OK", L, Clipped(r), Clipped(r))}
             ELSE {StealOut("OK", InsertInto(L, Clipped(r)),
                            Coalesced(L, Clipped(r)), Clipped(r))})

LandDeleteSteal(L, r, mayErr) ==
  LET holders == {q \in L : RangesNest(q, r)}
  IN IF holders = {} THEN {StealOut("FAIL", L, Unset, r)}
     ELSE LET old == CHOOSE q \in holders : TRUE
          IN {StealOut("OK", DeleteFrom(L, old, r), old, r)}
             \cup (IF mayErr THEN {StealOut("OK", DeleteFrom(L, old, r), old, Clipped(r))}
                   ELSE {})

\* LandIterate(land, visitor, closure): the ranges are visited in address
\* order until the visitor returns FALSE; the result tells whether the visitor
\* let the iteration run to its end.  The visitor modelled counts its calls in
\* its closure (visits) and returns FALSE on call number stopAt (0: never).
Visit(land, range) == [land |-> land, range |-> range]

RECURSIVE IterateOver(_, _, _, _)
IterateOver(name, todo, visits, stopAt) ==
  IF todo = {} THEN [cont |-> TRUE, visits |-> visits]
  ELSE LET r == CHOOSE q \in todo : \A o \in todo : q[1] <= o[1]
           seen == Append(visits, Visit(name, r))
       IN IF Len(seen) = stopAt THEN [cont |-> FALSE, visits |-> seen]
          ELSE IterateOver(name, todo \ {r}, seen, stopAt)

LandIterate(name, L, visits, stopAt) == IterateOver(name, L, visits, stopAt)

----------------------------------------------------------------------------
(* failover.c *)

Call(land, op, range, res) == [land |-> land, op |-> op, range |-> range, res |-> res]
FlushCall == Call("primary", "flush", Unset, "OK")


\* Mutant: the flush runs the wrong way, from the primary into the secondary
\* (which accepts every range that does not overlap one of its own).
RECURSIVE FlushBack(_, _, _)
FlushBack(P, S, todo) ==
  IF todo = {} THEN <<P, S>>
  ELSE LET r == CHOOSE q \in todo : \A o \in todo : q[1] <= o[1]
           o == CHOOSE x \in SecondaryInsert(S, r) : TRUE
       IN FlushBack(IF o.res = "OK" THEN P \ {r} ELSE P, o.land, todo \ {r})

failoverFlushBackwards(P0, S0) == {FlushBack(P0, S0, P0)}

\* Mutant: the flush copies the ranges the primary accepts and leaves them
\* in the secondary as well.
failoverFlushCopies(P0, S0) == {<<f[1], S0>> : f \in LandFlush(P0, S0)}

\* (void)LandFlush(fo->primary, fo->secondary): the result is thrown away,
\* only the children's new contents matter.
failoverFlush(P0, S0) == LandFlush(P0, S0)

\* The outcome of a Failover operation: the children afterwards (P, S) and
\* after the initial flush (fP, fS), the result, the caller's range result,
\* the child calls made, and the assertion that stopped the process, if any.
\* The find operations also give a found flag and the old range (old), the
\* steal operations the updated rangeIO (io), and iterate the visitor's calls.
Out(P, S, fP, fS, res, size, range, tr, halt) ==
  [P |-> P, S |-> S, fP |-> fP, fS |-> fS, res |-> res, size |-> size,
   range |-> range, found |-> FALSE, old |-> Unset, io |-> Unset,
   visits |-> <<>>, tr |-> tr, halt |-> halt]


\* Mutant: the secondary's size is left out of the sum.
failoverSizePrimaryOnly(P, S) == LandSize(P)

failoverSize(P, S) == LandSize(P) + LandSize(S)


\* Mutants: a refused insert is never retried; a ResFAIL is retried too;
\* the secondary is given the range whatever the primary said.
InsertNeverSpills(res) == FALSE
InsertSpillsOnFail(res) == res # "OK"
InsertAlwaysSpills(res) == TRUE

\* failoverInsert's test for retrying on the secondary.
InsertSpills(res) == res # "OK" /\ res # "FAIL"

\* Mutant: a ResFAIL from the primary is not passed on; the insert reports
\* ResOK.
failoverInsertHidesFail(P0, S0, range) ==
  UNION {
    UNION {
      LET tr1 == <<FlushCall, Call("primary", "insert", range, p.res)>>
      IN IF InsertSpills(p.res)
         THEN {Out(p.land, s.land, f[1], f[2], s.res, 0, s.range,
                   Append(tr1, Call("secondary", "insert", range, s.res)), "none")
               : s \in SecondaryInsert(f[2], range)}
         ELSE {Out(p.land, f[2], f[1], f[2], "OK", 0, p.range, tr1, "none")}
      : p \in PrimaryInsert(f[1], range)}
    : f \in failoverFlush(P0, S0)}

\* Mutant: the secondary is tried, but the primary's result is returned.
failoverInsertKeepsPrimaryResult(P0, S0, range) ==
  UNION {
    UNION {
      LET tr1 == <<FlushCall, Call("primary", "insert", range, p.res)>>
      IN IF InsertSpills(p.res)
         THEN {Out(p.land, s.land, f[1], f[2], p.res, 0, s.range,
                   Append(tr1, Call("secondary", "insert", range, s.res)), "none")
               : s \in SecondaryInsert(f[2], range)}
         ELSE {Out(p.land, f[2], f[1], f[2], p.res, 0, p.range, tr1, "none")}
      : p \in PrimaryInsert(f[1], range)}
    : f \in failoverFlush(P0, S0)}

failoverInsert(P0, S0, range) ==
  UNION {
    LET P1 == f[1]
        S1 == f[2]
    IN UNION {
         LET tr1 == <<FlushCall, Call("primary", "insert", range, p.res)>>
         IN IF InsertSpills(p.res)
            THEN {Out(p.land, s.land, P1, S1, s.res, 0, s.range,
                      Append(tr1, Call("secondary", "insert", range, s.res)), "none")
                  : s \in SecondaryInsert(S1, range)}
            ELSE {Out(p.land, S1, P1, S1, p.res, 0, p.range, tr1, "none")}
         : p \in PrimaryInsert(P1, range)}
    : f \in failoverFlush(P0, S0)}

\* The state of a failoverDelete in progress: the children, the local
\* variable res, the child calls so far, and the failed assertion, if any.
Exec(P, S, res, tr, halt) == [P |-> P, S |-> S, res |-> res, tr |-> tr, halt |-> halt]


\* Mutants: the secondary is never tried; a failed whole delete is ignored.
DeleteNeverTriesSecondary(res) == FALSE
WholeDeleteNeverFailed(res) == FALSE

\* failoverDelete's tests on the primary's results.
DeleteTriesSecondary(res) == res = "FAIL"
WholeDeleteFailed(res) == res # "OK"


\* Mutants: the left fragment is dropped; the right fragment starts at
\* range's base instead of its limit.
LeftFragmentEmpty(oldRange, range) == <<RangeBase(oldRange), RangeBase(oldRange)>>
RightFragmentFromBase(oldRange, range) == <<RangeBase(range), RangeLimit(oldRange)>>

\* The fragments of oldRange on either side of range.
LeftFragment(oldRange, range) == <<RangeBase(oldRange), RangeBase(range)>>
RightFragment(oldRange, range) == <<RangeLimit(range), RangeLimit(oldRange)>>


\* Mutant: a fragment the primary refuses is not given to the secondary.
FragmentNeverRefused(res) == FALSE

\* The test for putting a fragment in the secondary.
FragmentRefused(res) == res # "OK"


\* Mutant: the deleted range is returned in place of the old range.
OldRangeResultIsRange(oldRange, range) == range

\* What failoverDelete copies to rangeReturn on ResOK.
OldRangeResult(oldRange, range) == oldRange

\* Mutant: a fragment is re-inserted through the Failover's own insert method,
\* entering the land whose delete is still running.
reinsertViaFailover(x, frag, v) ==
  IF x.halt # "none" \/ RangeIsEmpty(frag) THEN {x}
  ELSE {Exec(o.P, o.S, o.res, Append(x.tr, Call("failover", "insert", frag, o.res)),
             "none")
        : o \in failoverInsert(x.P, x.S, frag)}

\* Mutant: a fragment the primary refused goes to the secondary, but res
\* keeps the primary's result.
reinsertKeepsPrimaryResult(x, frag, v) ==
  IF x.halt # "none" \/ RangeIsEmpty(frag) THEN {x}
  ELSE UNION {
    LET tr1 == Append(x.tr, Call("primary", "insert", frag, p.res))
    IN IF ~FragmentRefused(p.res) THEN {Exec(p.land, x.S, p.res, tr1, "none")}
       ELSE {Exec(x.P, s.land, p.res,
                  Append(tr1, Call("secondary", "insert", frag, s.res)), "none")
             : s \in SecondaryInsert(x.S, frag)}
    : p \in PrimaryInsert(x.P, frag)}

\* Re-insert one fragment: into the primary, else into the secondary.
reinsertFragment(x, frag, v) ==
  IF x.halt # "none" \/ RangeIsEmpty(frag) THEN {x}
  ELSE UNION {
    LET tr1 == Append(x.tr, Call("primary", "insert", frag, p.res))
    IN IF ~FragmentRefused(p.res) THEN {Exec(p.land, x.S, p.res, tr1, "none")}
       ELSE IF AverOn(v) /\ p.res = "FAIL"
       THEN {Exec(x.P, x.S, p.res, tr1, "AVER(res != ResFAIL)")}
       ELSE {Exec(x.P, s.land, s.res,
                  Append(tr1, Call("secondary", "insert", frag, s.res)),
                  IF AverOn(v) /\ s.res # "OK" THEN "AVER(res == ResOK)" ELSE "none")
             : s \in SecondaryInsert(x.S, frag)}
    : p \in PrimaryInsert(x.P, frag)}

\* Delete the whole of oldRange from the primary and re-insert the fragments.
deleteRecover(P1, S1, range, oldRange, tr, v) ==
  UNION {
    LET tr1 == Append(tr, Call("primary", "delete", oldRange, w.res))
    IN IF WholeDeleteFailed(w.res) THEN {Exec(w.land, S1, w.res, tr1, "return")}
       ELSE IF AverOn(v) /\ ~RangesEqual(oldRange, w.range)
       THEN {Exec(w.land, S1, w.res, tr1, "AVER(RangesEqual)")}
       ELSE UNION {reinsertFragment(y, RightFragment(oldRange, range), v)
                   : y \in reinsertFragment(Exec(w.land, S1, w.res, tr1, "none"),
                                            LeftFragment(oldRange, range), v)}
    : w \in PrimaryDelete(P1, oldRange)}

\* The end of failoverDelete: the nesting check and the copy to rangeReturn.
deleteFinish(x, fP, fS, oldRange, range, v) ==
  IF x.halt = "return" THEN Out(x.P, x.S, fP, fS, x.res, 0, Unset, x.tr, "none")
  ELSE IF x.halt # "none" THEN Out(x.P, x.S, fP, fS, x.res, 0, Unset, x.tr, x.halt)
  ELSE IF x.res = "OK"
  THEN IF AverCriticalOn(v) /\ ~RangesNest(oldRange, range)
       THEN Out(x.P, x.S, fP, fS, x.res, 0, Unset, x.tr, "AVER_CRITICAL(RangesNest)")
       ELSE Out(x.P, x.S, fP, fS, x.res, 0, OldRangeResult(oldRange, range), x.tr, "none")
  ELSE Out(x.P, x.S, fP, fS, x.res, 0, Unset, x.tr, "none")

failoverDelete(P0, S0, range, v) ==
  UNION {
    LET P1 == f[1]
        S1 == f[2]
    IN UNION {
         LET tr1 == <<FlushCall, Call("primary", "delete", range, d.res)>>
         IN IF DeleteTriesSecondary(d.res)
            THEN {Out(P1, s.land, P1, S1, s.res, 0, s.range,
                      Append(tr1, Call("secondary", "delete", range, s.res)), "none")
                  : s \in SecondaryDelete(S1, range)}
            ELSE IF d.res # "OK"
            THEN IF AverOn(v) /\ ~ResIsAllocFailure(d.res)
                 THEN {Out(P1, S1, P1, S1, d.res, 0, Unset, tr1,
                           "AVER(ResIsAllocFailure)")}
                 ELSE {deleteFinish(x, P1, S1, d.range, range, v)
                       : x \in deleteRecover(P1, S1, range, d.range, tr1, v)}
            ELSE {deleteFinish(Exec(d.land, S1, d.res, tr1, "none"),
                               P1, S1, d.range, range, v)}
         : d \in PrimaryDelete(P1, range)}
    : f \in failoverFlush(P0, S0)}

BoolRes(b) == IF b THEN "TRUE" ELSE "FALSE"

\* Mutant: only the primary is asked.
findInPrimaryOnly(op, P1, S1, p, s) ==
  [Out(p.land, S1, P1, S1, "OK", 0, p.range,
       <<FlushCall, Call("primary", op, Unset, BoolRes(p.found))>>, "none")
     EXCEPT !.found = p.found, !.old = p.old]

\* Mutant: both children are asked, whatever the primary answers.
findInBoth(op, P1, S1, p, s) ==
  [Out(p.land, s.land, P1, S1, "OK", 0, IF p.found THEN p.range ELSE s.range,
       <<FlushCall, Call("primary", op, Unset, BoolRes(p.found)),
         Call("secondary", op, Unset, BoolRes(s.found))>>, "none")
     EXCEPT !.found = p.found \/ s.found,
            !.old = IF p.found THEN p.old ELSE s.old]

\* Mutant: the children are asked in the wrong order, the secondary first.
findSecondaryFirst(op, P1, S1, p, s) ==
  LET tr1 == <<FlushCall, Call("secondary", op, Unset, BoolRes(s.found))>>
  IN IF s.found
     THEN [Out(P1, s.land, P1, S1, "OK", 0, s.range, tr1, "none")
             EXCEPT !.found = TRUE, !.old = s.old]
     ELSE [Out(p.land, S1, P1, S1, "OK", 0, p.range,
               Append(tr1, Call("primary", op, Unset, BoolRes(p.found))), "none")
             EXCEPT !.found = p.found, !.old = p.old]

\* primaryFind || secondaryFind: the secondary is asked only on a primary miss.
findInEither(op, P1, S1, p, s) ==
  LET tr1 == <<FlushCall, Call("primary", op, Unset, BoolRes(p.found))>>
  IN IF p.found
     THEN [Out(p.land, S1, P1, S1, "OK", 0, p.range, tr1, "none")
             EXCEPT !.found = TRUE, !.old = p.old]
     ELSE [Out(P1, s.land, P1, S1, "OK", 0, s.range,
               Append(tr1, Call("secondary", op, Unset, BoolRes(s.found))), "none")
             EXCEPT !.found = s.found, !.old = s.old]

failoverFindFirst(P0, S0, size, findDelete) ==
  {findInEither("findFirst", f[1], f[2],
                LandFindFirst(f[1], size, findDelete),
                LandFindFirst(f[2], size, findDelete))
   : f \in failoverFlush(P0, S0)}

failoverFindLast(P0, S0, size, findDelete) ==
  {findInEither("findLast", f[1], f[2],
                LandFindLast(f[1], size, findDelete),
                LandFindLast(f[2], size, findDelete))
   : f \in failoverFlush(P0, S0)}

failoverFindLargest(P0, S0, size, findDelete) ==
  {findInEither("findLargest", f[1], f[2],
                LandFindLargest(f[1], size, findDelete),
                LandFindLargest(f[2], size, findDelete))
   : f \in failoverFlush(P0, S0)}

\* Mutant: a range the primary does not take is offered to the secondary.
failoverInsertStealOrSpill(P0, S0, rangeIO, v) ==
  UNION {
    UNION {
      LET tr1 == <<FlushCall, Call("primary", "insertSteal", rangeIO, p.res)>>
      IN IF p.res = "OK"
         THEN {[Out(p.land, f[2], f[1], f[2], p.res, 0, p.range, tr1, "none")
                  EXCEPT !.io = p.io]}
         ELSE {[Out(f[1], s.land, f[1], f[2], s.res, 0, s.range,
                    Append(tr1, Call("secondary", "insertSteal", rangeIO, s.res)),
                    "none")
                  EXCEPT !.io = s.io]
               : s \in LandInsertSteal(f[2], rangeIO, FALSE)}
      : p \in LandInsertSteal(f[1], rangeIO, TRUE)}
    : f \in failoverFlush(P0, S0)}

\* Flush, then LandInsertSteal on the primary alone; its result is asserted
\* to be ResOK or ResFAIL and returned.
failoverInsertSteal(P0, S0, rangeIO, v) ==
  UNION {
    {LET tr1 == <<FlushCall, Call("primary", "insertSteal", rangeIO, p.res)>>
     IN IF AverOn(v) /\ p.res \notin {"OK", "FAIL"}
        THEN Out(p.land, f[2], f[1], f[2], p.res, 0, Unset, tr1,
                 "AVER(res == ResOK || res == ResFAIL)")
        ELSE [Out(p.land, f[2], f[1], f[2], p.res, 0, p.range, tr1, "none")
                EXCEPT !.io = p.io]
     : p \in LandInsertSteal(f[1], rangeIO, TRUE)}
    : f \in failoverFlush(P0, S0)}

\* Mutant: the secondary is not tried.
StealNeverTriesSecondary(res) == FALSE

\* failoverDeleteSteal's test for trying the secondary.
StealTriesSecondary(res) == res = "FAIL"

\* Flush, then LandDeleteSteal on the primary and, if that fails to find the
\* range, on the secondary; the result is asserted to be ResOK or ResFAIL.
failoverDeleteSteal(P0, S0, rangeIO, v) ==
  UNION {
    UNION {
      LET tr1 == <<FlushCall, Call("primary", "deleteSteal", rangeIO, p.res)>>
          done(x, P, S, tr) ==
            IF AverOn(v) /\ x.res \notin {"OK", "FAIL"}
            THEN Out(P, S, f[1], f[2], x.res, 0, Unset, tr,
                     "AVER(res == ResOK || res == ResFAIL)")
            ELSE [Out(P, S, f[1], f[2], x.res, 0, x.range, tr, "none")
                    EXCEPT !.io = x.io]
      IN IF StealTriesSecondary(p.res)
         THEN {done(s, p.land, s.land,
                    Append(tr1, Call("secondary", "deleteSteal", rangeIO, s.res)))
               : s \in LandDeleteSteal(f[2], rangeIO, FALSE)}
         ELSE {done(p, p.land, f[2], tr1)}
      : p \in LandDeleteSteal(f[1], rangeIO, TRUE)}
    : f \in failoverFlush(P0, S0)}

\* Mutant: the secondary is asked only when the primary answered, and
\* answered that it found nothing.
ZonesTriesSecondaryOnMiss(res, found) == res = "OK" /\ ~found

\* failoverFindInZones' test for asking the secondary.
ZonesTriesSecondary(res, found) == res # "OK" \/ ~found

\* Mutant: the entry assertion is gone.
FindInZonesNeverAsserts(v) == FALSE

\* AVER_CRITICAL(FALSE): fails wherever critical assertions are checked.
FindInZonesAsserts(v) == AverCriticalOn(v)

\* AVER_CRITICAL(FALSE) at entry; then flush, the primary, and the secondary
\* if the primary did not find a range; found starts FALSE and is written
\* by the children.
failoverFindInZones(P0, S0, size, zoneSet, high, v) ==
  IF FindInZonesAsserts(v)
  THEN {Out(P0, S0, P0, S0, "OK", 0, Unset, <<>>, "AVER_CRITICAL(FALSE)")}
  ELSE UNION {
    UNION {
      LET tr1 == <<FlushCall, Call("primary", "findInZones", p.range, p.res)>>
      IN IF ZonesTriesSecondary(p.res, p.found)
         THEN {[Out(p.land, s.land, f[1], f[2], s.res, 0, s.range,
                    Append(tr1, Call("secondary", "findInZones", s.range, s.res)),
                    "none")
                  EXCEPT !.found = s.found, !.old = s.old]
               : s \in SecondaryFindInZones(f[2], size, zoneSet, high, p.found)}
         ELSE {[Out(p.land, f[2], f[1], f[2], p.res, 0, p.range, tr1, "none")
                  EXCEPT !.found = p.found, !.old = p.old]}
      : p \in PrimaryFindInZones(f[1], size, zoneSet, high, FALSE)}
    : f \in failoverFlush(P0, S0)}

\* The outcome of failoverIterate once the children have been iterated.
Iterated(P, S, cont, visits, tr) ==
  [Out(P, S, P, S, BoolRes(cont), 0, Unset, tr, "none") EXCEPT !.visits = visits]


\* Mutant: iterate flushes first, like the other operations.
failoverIterateFlushing(P0, S0, stopAt) ==
  {LET p == LandIterate("primary", f[1], <<>>, stopAt)
       s == LandIterate("secondary", f[2], p.visits, stopAt)
   IN IF ~p.cont
      THEN Iterated(f[1], f[2], FALSE, p.visits,
                    <<FlushCall, Call("primary", "iterate", Unset, BoolRes(p.cont))>>)
      ELSE Iterated(f[1], f[2], s.cont, s.visits,
                    <<FlushCall, Call("primary", "iterate", Unset, BoolRes(p.cont)),
                      Call("secondary", "iterate", Unset, BoolRes(s.cont))>>)
   : f \in failoverFlush(P0, S0)}

\* Mutant: both children are iterated, whatever the primary's iteration
\* returned (& in place of &&).
failoverIterateBoth(P0, S0, stopAt) ==
  LET p == LandIterate("primary", P0, <<>>, stopAt)
      s == LandIterate("secondary", S0, p.visits, stopAt)
  IN {Iterated(P0, S0, p.cont /\ s.cont, s.visits,
               <<Call("primary", "iterate", Unset, BoolRes(p.cont)),
                 Call("secondary", "iterate", Unset, BoolRes(s.cont))>>)}

\* LandIterate(primary) && LandIterate(secondary), with no flush.
failoverIterate(P0, S0, stopAt) ==
  LET p == LandIterate("primary", P0, <<>>, stopAt)
      s == LandIterate("secondary", S0, p.visits, stopAt)
      tr1 == <<Call("primary", "iterate", Unset, BoolRes(p.cont))>>
  IN IF ~p.cont
     THEN {Iterated(P0, S0, FALSE, p.visits, tr1)}
     ELSE {Iterated(P0, S0, s.cont, s.visits,
                    Append(tr1, Call("secondary", "iterate", Unset, BoolRes(s.cont))))}

----------------------------------------------------------------------------
(* The caller: one action per Land operation *)

Entry(op, range, size, findDelete) ==
  [op |-> op, range |-> range, size |-> size, findDelete |-> findDelete,
   zoneSet |-> {}, high |-> FALSE, preP |-> primary, preS |-> secondary]

Return(o) ==
  /\ primary' = o.P
  /\ secondary' = o.S
  /\ flushed' = <<o.fP, o.fS>>
  /\ ret' = [res |-> o.res, size |-> o.size, range |-> o.range,
             found |-> o.found, old |-> o.old, io |-> o.io, visits |-> o.visits]
  /\ trace' = o.tr
  /\ halted' = o.halt

\* Between calls the caller holds no results.
NoCall == [op |-> "idle", range |-> Unset, size |-> 0, findDelete |-> "NONE",
           zoneSet |-> {}, high |-> FALSE, preP |-> {}, preS |-> {}]
NoRet == [res |-> "OK", size |-> 0, range |-> Unset, found |-> FALSE, old |-> Unset,
          io |-> Unset, visits |-> <<>>]
Idle == halted = "none" /\ call.op = "idle"

Size ==
  /\ Idle
  /\ call' = Entry("size", Unset, 0, "NONE")
  /\ Return(Out(primary, secondary, primary, secondary, "OK",
                failoverSize(primary, secondary), Unset, <<>>, "none"))
  /\ UNCHANGED <<variety, disciplined, inserted>>

Insert ==
  /\ Idle
  /\ \E range \in Ranges :
       \E o \in failoverInsert(primary, secondary, range) :
         /\ call' = Entry("insert", range, 0, "NONE")
         /\ Return(o)
         /\ disciplined' = (disciplined /\
                Addrs(range) \cap (LandAddrs(primary) \cup LandAddrs(secondary)) = {})
         /\ inserted' = IF o.res = "OK" THEN inserted \cup Addrs(range) ELSE inserted
  /\ UNCHANGED variety

Delete ==
  /\ Idle
  /\ \E range \in Ranges :
       \E o \in failoverDelete(primary, secondary, range, variety) :
         /\ call' = Entry("delete", range, 0, "NONE")
         /\ Return(o)
         /\ inserted' = IF o.halt = "none" /\ o.res = "OK"
                        THEN inserted \ Addrs(range) ELSE inserted
  /\ UNCHANGED <<variety, disciplined>>

\* The caller's part of a find: the addresses a found range takes away.
Found(op, size, findDelete, o) ==
  /\ call' = Entry(op, Unset, size, findDelete)
  /\ Return(o)
  /\ inserted' = IF o.found /\ findDelete # "NONE"
                 THEN inserted \ Addrs(o.range) ELSE inserted
  /\ UNCHANGED <<variety, disciplined>>

FindFirst ==
  /\ Idle
  /\ \E size \in 1..MaxAddr, findDelete \in FindDeletes :
       \E o \in failoverFindFirst(primary, secondary, size, findDelete) :
         Found("findFirst", size, findDelete, o)

FindLast ==
  /\ Idle
  /\ \E size \in 1..MaxAddr, findDelete \in FindDeletes :
       \E o \in failoverFindLast(primary, secondary, size, findDelete) :
         Found("findLast", size, findDelete, o)

FindLargest ==
  /\ Idle
  /\ \E size \in 1..MaxAddr, findDelete \in FindDeletes :
       \E o \in failoverFindLargest(primary, secondary, size, findDelete) :
         Found("findLargest", size, findDelete, o)

\* rangeReturn and rangeIO are distinct buffers of the caller.
InsertSteal ==
  /\ Idle
  /\ \E rangeIO \in Ranges :
       \E o \in failoverInsertSteal(primary, secondary, rangeIO, variety) :
         /\ call' = Entry("insertSteal", rangeIO, 0, "NONE")
         /\ Return(o)
         /\ disciplined' = (disciplined /\
                Addrs(rangeIO) \cap (LandAddrs(primary) \cup LandAddrs(secondary)) = {})
         /\ inserted' = IF o.halt = "none" /\ o.res = "OK"
                        THEN inserted \cup Addrs(o.io) ELSE inserted
  /\ UNCHANGED variety

DeleteSteal ==
  /\ Idle
  /\ \E rangeIO \in Ranges :
       \E o \in failoverDeleteSteal(primary, secondary, rangeIO, variety) :
         /\ call' = Entry("deleteSteal", rangeIO, 0, "NONE")
         /\ Return(o)
         /\ inserted' = IF o.halt = "none" /\ o.res = "OK"
                        THEN inserted \ Addrs(rangeIO) ELSE inserted
  /\ UNCHANGED <<variety, disciplined>>

FindInZones ==
  /\ Idle
  /\ \E size \in 1..MaxAddr, zoneSet \in ZoneSets, high \in BOOLEAN :
       \E o \in failoverFindInZones(primary, secondary, size, zoneSet, high, variety) :
         /\ call' = [Entry("findInZones", Unset, size, "NONE")
                       EXCEPT !.zoneSet = zoneSet, !.high = high]
         /\ Return(o)
         /\ inserted' = IF o.halt = "none" /\ o.res = "OK" /\ o.found
                        THEN inserted \ Addrs(o.range) ELSE inserted
  /\ UNCHANGED <<variety, disciplined>>

\* The visitor passed is not NULL; call.size holds the call at which it
\* returns FALSE (0: it never does).
Iterate ==
  /\ Idle
  /\ \E stopAt \in 0..(Cardinality(primary) + Cardinality(secondary)) :
       \E o \in failoverIterate(primary, secondary, stopAt) :
         /\ call' = Entry("iterate", Unset, stopAt, "NONE")
         /\ Return(o)
  /\ UNCHANGED <<variety, disciplined, inserted>>

\* The caller has used the results of the last call; its buffers go away.
Discard ==
  /\ halted = "none"
  /\ call.op # "idle"
  /\ call' = NoCall
  /\ flushed' = <<{}, {}>>
  /\ ret' = NoRet
  /\ trace' = <<>>
  /\ UNCHANGED <<primary, secondary, variety, disciplined, inserted, halted>>

Init ==
  /\ primary = {}
  /\ secondary = {}
  /\ variety \in Varieties
  /\ disciplined = TRUE
  /\ inserted = {}
  /\ halted = "none"
  /\ call = NoCall
  /\ flushed = <<{}, {}>>
  /\ ret = NoRet
  /\ trace = <<>>

Next ==
  \/ Size
  \/ Insert
  \/ InsertSteal
  \/ Delete
  \/ DeleteSteal
  \/ FindFirst
  \/ FindLast
  \/ FindLargest
  \/ FindInZones
  \/ Iterate
  \/ Discard

Spec == Init /\ [][Next]_vars

----------------------------------------------------------------------------
(* Scenario S5: the largest range, with a third range in the secondary *)

S5Primary == {<<0, 10>>, <<100, 130>>}
S5Secondary == {<<200, 215>>}
S5Sizes == {10, 15, 30}

InitS5 ==
  /\ primary = S5Primary
  /\ secondary = S5Secondary
  /\ variety \in Varieties
  /\ disciplined = TRUE
  /\ inserted = LandAddrs(S5Primary) \cup LandAddrs(S5Secondary)
  /\ halted = "none"
  /\ call = NoCall
  /\ flushed = <<{}, {}>>
  /\ ret = NoRet
  /\ trace = <<>>

FindLargestS5 ==
  /\ Idle
  /\ \E size \in S5Sizes, findDelete \in FindDeletes :
       \E o \in failoverFindLargest(primary, secondary, size, findDelete) :
         Found("findLargest", size, findDelete, o)

NextS5 ==
  \/ FindLargestS5
  \/ Discard

SpecS5 == InitS5 /\ [][NextS5]_vars

----------------------------------------------------------------------------
(* Properties of the last operation, read off call, flushed, ret and trace *)

Free == LandAddrs(primary) \cup LandAddrs(secondary)
PreFree == LandAddrs(call.preP) \cup LandAddrs(call.preS)
Returned == halted = "none"
IsInsert == call.op = "insert"
IsDelete == call.op = "delete"

HeldIn(L, r) == \E q \in L : RangesNest(q, r)
Holder(L, r) == CHOOSE q \in L : RangesNest(q, r)

\* The range of the flushed primary that holds the deleted range, and what
\* is left of it on either side.
Old == Holder(flushed[1], call.range)
Left == <<Old[1], call.range[1]>>
Right == <<call.range[2], Old[2]>>

InOneChild(frag) ==
  \/ /\ Addrs(frag) \subseteq LandAddrs(primary)
     /\ Addrs(frag) \cap LandAddrs(secondary) = {}
  \/ /\ Addrs(frag) \subseteq LandAddrs(secondary)
     /\ Addrs(frag) \cap LandAddrs(primary) = {}

\* primary.delete(range) found the range and returned an error.
PrimaryDeleteErred == IsDelete /\ trace[2].res \notin {"OK", "FAIL"}
\* ... and the whole old range was then deleted from the primary.
WholeRemoved == PrimaryDeleteErred /\ Len(trace) >= 3 /\ trace[3].res = "OK"

SplitDone ==
  /\ Returned
  /\ ret.res = "OK"
  /\ ret.range = Old
  /\ Free = PreFree \ Addrs(call.range)
  /\ InOneChild(Left)
  /\ InOneChild(Right)
  /\ Addrs(call.range) \cap Free = {}

\* C1 as stated: for a caller that inserts only ranges disjoint from the free
\* set, every delete(r) whose primary.delete(r) returned an allocation failure
\* returns OK with old_range = old, leaves exactly the previous free set minus
\* r, each fragment in exactly one child and no address of r in either child.
C1_EveryRecoveryReturnsOK ==
  (IsDelete /\ disciplined /\ trace[2].res = "MEMORY") => SplitDone

\* C1 as amended: the same, provided the delete of the whole old range from
\* the primary returned OK.
C1_RecoverableSplit ==
  (IsDelete /\ disciplined /\ trace[2].res = "MEMORY" /\ trace[3].res = "OK")
    => SplitDone

C1_Witness ==
  /\ IsDelete /\ disciplined /\ Returned
  /\ trace[2].res = "MEMORY" /\ trace[3].res = "OK"
  /\ ~RangeIsEmpty(Left) /\ ~RangeIsEmpty(Right)
  /\ Addrs(Left) \subseteq LandAddrs(primary)
  /\ Addrs(Right) \subseteq LandAddrs(secondary)

\* C2: as long as every inserted range was disjoint from the free set, the
\* addresses free in the primary or the secondary are exactly those inserted
\* with OK and not removed since by a delete or find that returned them, and
\* the Failover's size reports exactly that many, wherever they are held.
C2_UnionSemantics ==
  disciplined =>
    /\ Free = inserted
    /\ call.op = "size" => ret.size = Cardinality(inserted)

C2_Witness ==
  /\ disciplined /\ IsDelete /\ Returned /\ ret.res = "OK"
  /\ trace[2].res = "MEMORY"
  /\ primary # {} /\ secondary # {}
  /\ Free = inserted

\* C3: size() returns the bytes held by the primary plus the bytes held by
\* the secondary, calls neither child's mutators and changes neither child.
C3_SizeAdditivity ==
  call.op = "size" =>
    /\ Returned
    /\ ret.size = Cardinality(LandAddrs(call.preP)) + Cardinality(LandAddrs(call.preS))
    /\ primary = call.preP
    /\ secondary = call.preS
    /\ trace = <<>>

C3_Witness == call.op = "size" /\ primary # {} /\ secondary # {}

\* C4: when primary.insert(range) returns neither OK nor FAIL, insert retries
\* the same range on the secondary and returns the secondary's result and
\* inserted range; if the secondary accepts, the range is free in the
\* secondary and the primary is as the flush left it.
C4_SpillOnInsert ==
  (IsInsert /\ trace[2].res \notin {"OK", "FAIL"}) =>
    /\ Returned
    /\ Len(trace) = 3
    /\ trace[3] = Call("secondary", "insert", call.range, ret.res)
    /\ primary = flushed[1]
    /\ IF Addrs(call.range) \cap LandAddrs(flushed[2]) = {}
       THEN /\ ret.res = "OK"
            /\ ret.range \in secondary
            /\ RangesNest(ret.range, call.range)
            /\ LandAddrs(secondary) = LandAddrs(flushed[2]) \cup Addrs(call.range)
       ELSE /\ ret.res = "FAIL"
            /\ ret.range = Unset
            /\ secondary = flushed[2]

\* Scenario S1: both children empty, the primary out of memory.
C4_Witness ==
  /\ IsInsert /\ trace[2].res = "MEMORY" /\ ret.res = "OK"
  /\ call.preP = {} /\ call.preS = {}
  /\ primary = {} /\ secondary = {call.range} /\ ret.range = call.range

\* C5: when primary.insert(range) returns FAIL, insert returns FAIL and makes
\* no call on the secondary; the secondary is called only after a result of
\* the primary that is neither OK nor FAIL.
C5_NoSpillOnFail ==
  IsInsert =>
    /\ trace[2].res = "FAIL" =>
         /\ Returned /\ ret.res = "FAIL" /\ ret.range = Unset
         /\ Len(trace) = 2
         /\ primary = flushed[1] /\ secondary = flushed[2]
    /\ \A i \in 1..Len(trace) :
         trace[i].land = "secondary" => trace[2].res \notin {"OK", "FAIL"}

\* The primary refuses a range that the secondary would have accepted.
C5_Witness ==
  /\ IsInsert /\ trace[2].res = "FAIL"
  /\ secondary # {}
  /\ Addrs(call.range) \cap LandAddrs(secondary) = {}

\* C6: when primary.delete(range) returns FAIL, delete calls
\* secondary.delete(range) and returns its result and old range, the primary
\* staying as flushed; a range held by no range of either child (as the flush
\* left them) yields FAIL, as does any range with an address that is not
\* free, and that FAIL leaves the free set unchanged.
C6_DeleteDelegates ==
  IsDelete =>
    /\ trace[2].res = "FAIL" =>
         /\ Returned
         /\ Len(trace) = 3
         /\ trace[3] = Call("secondary", "delete", call.range, ret.res)
         /\ primary = flushed[1]
         /\ IF HeldIn(flushed[2], call.range)
            THEN /\ ret.res = "OK"
                 /\ ret.range = Holder(flushed[2], call.range)
                 /\ LandAddrs(secondary) = LandAddrs(flushed[2]) \ Addrs(call.range)
            ELSE /\ ret.res = "FAIL"
                 /\ ret.range = Unset
                 /\ secondary = flushed[2]
                 /\ Free = PreFree
    /\ (~HeldIn(flushed[1], call.range) /\ ~HeldIn(flushed[2], call.range))
         => trace[2].res = "FAIL" /\ ret.res = "FAIL"
    /\ ~(Addrs(call.range) \subseteq PreFree)
         => trace[2].res = "FAIL" /\ ret.res = "FAIL"

\* Scenario S4: both children hold ranges, none of them the one deleted.
C6_Witness ==
  /\ IsDelete /\ Returned /\ ret.res = "FAIL"
  /\ primary # {} /\ secondary # {}
  /\ Addrs(call.range) \cap Free = {}
  /\ Len(trace) = 3

\* C7: when delete returns OK after the primary located the range (directly
\* or through the recovery), the old range returned is a range the primary
\* held when primary.delete was called and it contains the deleted range; the
\* assertion RangesNest(oldRange, range) never fails.
C7_OldRangeNests ==
  /\ halted # "AVER_CRITICAL(RangesNest)"
  /\ (IsDelete /\ Returned /\ ret.res = "OK" /\ trace[2].res # "FAIL") =>
       /\ ret.range \in flushed[1]
       /\ RangesNest(ret.range, call.range)

C7_Witness ==
  /\ IsDelete /\ Returned /\ ret.res = "OK"
  /\ trace[2].res = "MEMORY"
  /\ variety = "cool"
  /\ ret.range # call.range

\* The child calls of the recovery after the whole old range was deleted,
\* and the non-empty fragments in the order the code handles them.
FragmentCalls == SubSeq(trace, 4, Len(trace))
Offers == SelectSeq(FragmentCalls, LAMBDA c : c.land = "primary")
Fragments == SelectSeq(<<Left, Right>>, LAMBDA f : ~RangeIsEmpty(f))

C9_WholeDeleteFails ==
  (PrimaryDeleteErred /\ Len(trace) >= 3 /\ trace[3].res # "OK") =>
    /\ Returned
    /\ ret.res = trace[3].res
    /\ Len(trace) = 3
    /\ ret.range = Unset
    /\ primary = flushed[1]
    /\ secondary = flushed[2]

C9_Witness ==
  /\ IsDelete /\ trace[2].res = "MEMORY"
  /\ Len(trace) = 3 /\ trace[3].res = "LIMIT"
  /\ Returned /\ ret.res = "LIMIT"

\* primary.delete returned a result that is neither OK, FAIL nor an
\* allocation failure.
UnexpectedError ==
  IsDelete /\ trace[2].res \notin {"OK", "FAIL", "MEMORY", "COMMIT_LIMIT", "RESOURCE"}

\* C10 as stated: when primary.delete returns a result that is neither OK,
\* FAIL nor an allocation failure, delete returns that result to its caller.
C10_ErrorPropagated ==
  UnexpectedError => (Returned /\ ret.res = trace[2].res)

\* C10 as amended: such a result is not returned.  A build with assertions
\* stops on AVER(ResIsAllocFailure(res)) with the children as flushed; a
\* build without them takes the recovery path as for an allocation failure:
\* it deletes the whole old range from the primary and returns an error only
\* if that delete fails, else OK with the range removed.
C10_UnexpectedErrorAsserts ==
  UnexpectedError =>
    IF AverOn(variety)
    THEN /\ halted = "AVER(ResIsAllocFailure)"
         /\ Len(trace) = 2
         /\ primary = flushed[1]
         /\ secondary = flushed[2]
    ELSE /\ Returned
         /\ Len(trace) >= 3
         /\ trace[3] = Call("primary", "delete", Old, trace[3].res)
         /\ trace[3].res # "OK" => ret.res = trace[3].res
         /\ (trace[3].res = "OK" /\ disciplined) =>
              /\ ret.res = "OK"
              /\ Free = PreFree \ Addrs(call.range)

C10_Witness ==
  /\ UnexpectedError /\ variety = "rash"
  /\ Returned /\ ret.res = "OK"
  /\ Len(trace) > 3

----------------------------------------------------------------------------
(* Single entry *)

\* The lands a call enters, outermost first.  A flush iterates over the
\* secondary and inserts into the primary from inside that iteration; every
\* other call enters the one land it is made on.
LandsEntered(c) == IF c.op = "flush" THEN <<"secondary", "primary">> ELSE <<c.land>>

\* The lands that are executing an operation while call c runs: the Failover,
\* whose method is in progress, and the lands c enters.
Busy(c) == <<"failover">> \o LandsEntered(c)

\* C11: every call a Failover operation makes, the delete recovery's
\* included, is made on a child, and never enters a land that is already
\* executing an operation: not the Failover itself, whose method is in
\* progress, and not a child twice.
C11_NoReentry ==
  \A i \in 1..Len(trace) :
    /\ trace[i].land \in {"primary", "secondary"}
    /\ \A j, k \in 1..Len(Busy(trace[i])) :
         j # k => Busy(trace[i])[j] # Busy(trace[i])[k]

\* A recovery that re-inserted a fragment in the primary and one in the
\* secondary.
C11_Witness ==
  /\ WholeRemoved
  /\ Len(trace) >= 6
  /\ \E i \in 4..Len(trace) : trace[i].land = "secondary" /\ trace[i].op = "insert"
  /\ trace[Len(trace)].land = "primary"

----------------------------------------------------------------------------
(* The Failover against a single Land *)

IsFind == call.op \in {"findFirst", "findLast", "findLargest"}

\* The ranges of a single coalescing Land whose free addresses are A.
SingleLand(A) ==
  {r \in Ranges : Addrs(r) \subseteq A /\ (r[1] - 1) \notin A /\ r[2] \notin A}

\* C12 as claimed: every result is the one a single Land holding the union
\* of the children gives when nothing fails: a delete of free addresses
\* returns OK, a find is found when a range of the union is large enough,
\* the free set changes accordingly, and an iteration visits the ranges of
\* the union.
C12_SameAsSingleLand ==
  (disciplined /\ Returned) =>
    /\ call.op = "size" => ret.size = Cardinality(PreFree)
    /\ IsInsert => ret.res = "OK" /\ Free = PreFree \cup Addrs(call.range)
    /\ IsDelete =>
         IF HeldIn(SingleLand(PreFree), call.range)
         THEN ret.res = "OK" /\ Free = PreFree \ Addrs(call.range)
         ELSE ret.res = "FAIL" /\ Free = PreFree
    /\ IsFind => ret.found = (Fits(SingleLand(PreFree), call.size) # {})
    /\ (call.op = "iterate" /\ call.size = 0) =>
         {ret.visits[i].range : i \in 1..Len(ret.visits)} = SingleLand(PreFree)

\* C12: for a caller that inserts only ranges disjoint from the free set,
\* size() is the number of free addresses, an insert returns OK and adds its
\* range, a delete that returns OK removes exactly its range and any other
\* delete removes nothing, and a find that is found gives free addresses of
\* at least the size asked and removes exactly what it says, wherever the
\* ranges lie.  A delete's result code and a find's found flag are those of
\* the ranges as the children hold them after the flush: a miss means that no
\* range of either child is large enough, not that none of the union is.
\* An iteration that is not stopped visits every free address once, in the
\* children's ranges.
C12_ResultsOfTheUnion ==
  (disciplined /\ Returned) =>
    /\ call.op = "size" => ret.size = Cardinality(PreFree)
    /\ IsInsert => ret.res = "OK" /\ Free = PreFree \cup Addrs(call.range)
    /\ IsDelete =>
         IF ret.res = "OK"
         THEN /\ Addrs(call.range) \subseteq PreFree
              /\ Free = PreFree \ Addrs(call.range)
         ELSE Free = PreFree
    /\ IsFind =>
         IF ret.found
         THEN /\ Addrs(ret.range) \subseteq PreFree
              /\ RangeSize(ret.range) >= call.size
              /\ Free = IF call.findDelete = "NONE" THEN PreFree
                        ELSE PreFree \ Addrs(ret.range)
         ELSE /\ Free = PreFree
              /\ Fits(flushed[1], call.size) = {}
              /\ Fits(flushed[2], call.size) = {}
    /\ (call.op = "iterate" /\ call.size = 0) =>
         /\ UNION {Addrs(ret.visits[i].range) : i \in 1..Len(ret.visits)} = PreFree
         /\ \A i, j \in 1..Len(ret.visits) :
              i # j => ~RangesOverlap(ret.visits[i].range, ret.visits[j].range)

\* A find that misses a free range large enough for it, because a refused
\* flush left the range split between the children.
C12_Witness ==
  /\ disciplined /\ Returned /\ IsFind
  /\ ~ret.found
  /\ Fits(SingleLand(PreFree), call.size) # {}
  /\ primary # {} /\ secondary # {}

----------------------------------------------------------------------------
(* The finds *)

\* What a child answers to the find the caller asked for.
ChildFind(op, L, size, findDelete) ==
  CASE op = "findFirst" -> LandFindFirst(L, size, findDelete)
    [] op = "findLast" -> LandFindLast(L, size, findDelete)
    [] OTHER -> LandFindLargest(L, size, findDelete)

PrimaryAnswer == ChildFind(call.op, flushed[1], call.size, call.findDelete)
SecondaryAnswer == ChildFind(call.op, flushed[2], call.size, call.findDelete)

\* C13: a find flushes, then asks the primary.  If the primary finds a range
\* that is the result, the secondary is not asked and is left as the flush
\* left it.  Otherwise the secondary is asked the same question (same size,
\* same findDelete), its answer is the result, and the primary is left as
\* the flush left it.  So only the child that answered deletes anything.
C13_FindOrder ==
  IsFind =>
    /\ <<flushed[1], flushed[2]>> \in LandFlush(call.preP, call.preS)
    /\ Len(trace) >= 2
    /\ trace[1] = FlushCall
    /\ trace[2] = Call("primary", call.op, Unset, BoolRes(PrimaryAnswer.found))
    /\ IF PrimaryAnswer.found
       THEN /\ Len(trace) = 2
            /\ ret.found
            /\ ret.range = PrimaryAnswer.range /\ ret.old = PrimaryAnswer.old
            /\ primary = PrimaryAnswer.land
            /\ secondary = flushed[2]
       ELSE /\ Len(trace) = 3
            /\ trace[3] = Call("secondary", call.op, Unset, BoolRes(SecondaryAnswer.found))
            /\ ret.found = SecondaryAnswer.found
            /\ ret.range = SecondaryAnswer.range /\ ret.old = SecondaryAnswer.old
            /\ primary = flushed[1]
            /\ secondary = SecondaryAnswer.land

\* A primary hit with a delete while the secondary also holds a range that
\* would have answered.
C13_Witness ==
  /\ IsFind
  /\ call.findDelete = "ENTIRE"
  /\ PrimaryAnswer.found /\ SecondaryAnswer.found
  /\ primary # flushed[1]
  /\ secondary = flushed[2] /\ secondary # {}

\* Scenario S5 has just been run: find_largest(15, NONE) on the children
\* {[0,10), [100,130)} and {[200,215)}.
S5Run ==
  /\ call.op = "findLargest"
  /\ call.preP = S5Primary /\ call.preS = S5Secondary
  /\ call.size = 15 /\ call.findDelete = "NONE"

\* C14 as claimed: scenario S5 returns the secondary's range [200,215).
C14_S5ReturnsSecondaryRange ==
  S5Run => ret.found /\ ret.range = <<200, 215>>

\* C14: scenario S5 returns [100,130), the largest range of the primary,
\* whether or not the flush moved [200,215) into the primary, and frees
\* nothing.
C14_S5ReturnsPrimaryRange ==
  S5Run =>
    /\ ret.found
    /\ ret.range = <<100, 130>>
    /\ Free = PreFree

\* Scenario S5 with the flush refused: [200,215) is still in the secondary.
C14_Witness ==
  /\ S5Run
  /\ ret.found
  /\ secondary = S5Secondary
  /\ primary = S5Primary

----------------------------------------------------------------------------
(* iterate *)

IsIterate == call.op = "iterate"

\* The ranges of a land in the order of their visits.
RECURSIVE InOrder(_)
InOrder(L) ==
  IF L = {} THEN <<>>
  ELSE LET r == CHOOSE q \in L : \A o \in L : q[1] <= o[1]
       IN <<r>> \o InOrder(L \ {r})

\* Every range of the primary and then every range of the secondary.
AllVisits ==
  [i \in 1..Cardinality(call.preP) |-> Visit("primary", InOrder(call.preP)[i])]
    \o [i \in 1..Cardinality(call.preS) |-> Visit("secondary", InOrder(call.preS)[i])]

\* C15: iterate makes no flush and leaves both children as they were.  The
\* visitor sees the ranges of the primary and then those of the secondary,
\* none twice, and all of them, each exactly once, unless it asks to stop.
\* The result is the conjunction of the children's results: TRUE exactly
\* when both were iterated and both returned TRUE.
C15_IterateVisitsBoth ==
  IsIterate =>
    /\ \A i \in 1..Len(trace) : trace[i].op = "iterate"
    /\ primary = call.preP /\ secondary = call.preS
    /\ Len(ret.visits) <= Len(AllVisits)
    /\ ret.visits = SubSeq(AllVisits, 1, Len(ret.visits))
    /\ call.size = 0 =>
         /\ ret.visits = AllVisits
         /\ Len(ret.visits) = Cardinality(call.preP) + Cardinality(call.preS)
    /\ (ret.res = "TRUE") =
         (/\ Len(trace) = 2
          /\ trace[1] = Call("primary", "iterate", Unset, "TRUE")
          /\ trace[2] = Call("secondary", "iterate", Unset, "TRUE"))

\* Scenario S6: one range in the primary and an adjacent one in the
\* secondary, and a visitor that counts: it is called exactly twice.
C15_Witness ==
  /\ IsIterate
  /\ call.size = 0
  /\ Cardinality(primary) = 1 /\ Cardinality(secondary) = 1
  /\ \E p \in primary, q \in secondary : p[2] = q[1]
  /\ Len(ret.visits) = 2
  /\ ret.res = "TRUE"

----------------------------------------------------------------------------
(* The steal variants *)

----------------------------------------------------------------------------
(* find in zones *)

IsFindInZones == call.op = "findInZones"

\* What the primary answered: a result code, and a range if it found one.
PrimaryFound == trace[2].res = "OK" /\ trace[2].range # Unset

\* The flush, the primary, and the secondary exactly when the primary gave
\* a result other than ResOK or found nothing; the secondary's result code
\* is then the call's, and so is its found flag.
ZonesOrder ==
  /\ Len(trace) \in {2, 3}
  /\ trace[1] = FlushCall
  /\ <<flushed[1], flushed[2]>> \in LandFlush(call.preP, call.preS)
  /\ trace[2].land = "primary" /\ trace[2].op = "findInZones"
  /\ (Len(trace) = 3) = ~PrimaryFound
  /\ IF Len(trace) = 3
     THEN /\ trace[3].land = "secondary" /\ trace[3].op = "findInZones"
          /\ ret.res = trace[3].res
          /\ ret.found = (trace[3].res = "OK" /\ trace[3].range # Unset)
          /\ ret.found => ret.range = trace[3].range
          /\ trace[3].res = "OK" =>
               \E a \in SecondaryFindInZones(flushed[2], call.size, call.zoneSet,
                                              call.high, FALSE) :
                 /\ a.res = "OK" /\ a.found = ret.found
                 /\ a.range = ret.range /\ a.land = secondary
     ELSE /\ ret.res = "OK" /\ ret.found
          /\ ret.range = trace[2].range
          /\ secondary = flushed[2]

\* C18 as claimed: every find_in_zones flushes, asks the primary, and asks
\* the secondary exactly when the primary did not find a range.
C18_ZonesAlwaysRuns ==
  IsFindInZones => ZonesOrder

\* C18: in a build without critical assertions, find_in_zones flushes, asks
\* the primary, and asks the secondary exactly when the primary gave a
\* result other than ResOK or found nothing; the result code and the found
\* flag are then the secondary's, so a primary error is not returned when
\* the secondary answers ResOK.  In a build with critical assertions the
\* call stops at the assertion at its entry, before the flush.
C18_ZonesOrderWhenRun ==
  IsFindInZones =>
    IF AverCriticalOn(variety)
    THEN /\ halted = "AVER_CRITICAL(FALSE)"
         /\ trace = <<>>
         /\ primary = call.preP /\ secondary = call.preS
    ELSE Returned /\ ZonesOrder

\* A primary error that the caller does not see: the secondary found a
\* range and the call returned ResOK.
C18_Witness ==
  /\ IsFindInZones
  /\ Returned
  /\ Len(trace) = 3
  /\ trace[2].res = "MEMORY"
  /\ ret.res = "OK" /\ ret.found
  /\ secondary # flushed[2]

----------------------------------------------------------------------------
(* The flush *)

\* The operations the claims about the flush name.
Flushes == IsInsert \/ IsDelete \/ IsFind

\* C19: insert, delete and the finds flush first and go on to call the
\* primary whatever the flush achieved.  The flush changes neither the free
\* addresses nor the size: each range of the secondary either stays where
\* it was or has become part of the primary, and nothing else moves.  So an
\* insert that returns ResOK raises the size by the length of its range.
C19_FlushBestEffort ==
  Flushes =>
    /\ Len(trace) >= 2
    /\ trace[1] = FlushCall
    /\ trace[2].land = "primary" /\ trace[2].op = call.op
    /\ flushed[2] \subseteq call.preS
    /\ LandAddrs(flushed[1])
         = LandAddrs(call.preP) \cup LandAddrs(call.preS \ flushed[2])
    /\ LandAddrs(flushed[1]) \cup LandAddrs(flushed[2]) = PreFree
    /\ LandSize(flushed[1]) + LandSize(flushed[2])
         = LandSize(call.preP) + LandSize(call.preS)
    /\ (IsInsert /\ ret.res = "OK") =>
         LandSize(primary) + LandSize(secondary)
           = LandSize(call.preP) + LandSize(call.preS) + RangeSize(call.range)

\* An insert after a flush that moved one range and was refused another,
\* which the secondary took.
C19_Witness ==
  /\ IsInsert
  /\ ret.res = "OK"
  /\ flushed[2] # {} /\ flushed[2] # call.preS
  /\ Len(trace) = 3
  /\ LandSize(secondary) = LandSize(flushed[2]) + RangeSize(call.range)

\* The primary accepted every range it was offered in the last operation:
\* the flush moved every range of the secondary, and no insert into the
\* primary was refused.
PrimaryAcceptedAll ==
  /\ flushed[2] = {}
  /\ \A i \in 1..Len(trace) :
       (trace[i].land = "primary" /\ trace[i].op = "insert") => trace[i].res = "OK"

\* C20: when the primary accepts every range offered to it during an
\* insert, a delete or a find, the secondary is empty when the operation
\* returns; the range an insert then returns is the whole free range that
\* holds the inserted one, its free neighbours included.
C20_DrainAndCoalesce ==
  (Flushes /\ Returned /\ PrimaryAcceptedAll) =>
    /\ secondary = {}
    /\ (IsInsert /\ ret.res = "OK") =>
         /\ ret.range \in SingleLand(Free)
         /\ RangesNest(ret.range, call.range)
         /\ ret.range \in primary

\* Scenario S2: a range in the primary, the adjacent one in the secondary,
\* and an insert of the next: one range in the primary, nothing in the
\* secondary, and the size that of the three.
C20_Witness ==
  /\ IsInsert /\ Returned /\ PrimaryAcceptedAll
  /\ Cardinality(call.preP) = 1 /\ Cardinality(call.preS) = 1
  /\ \E p \in call.preP, q \in call.preS : p[2] = q[1] /\ q[2] = call.range[1]
  /\ ret.res = "OK"
  /\ primary = {ret.range}
  /\ secondary = {}
  /\ LandSize(primary) = LandSize(call.preP) + LandSize(call.preS) + RangeSize(call.range)

----------------------------------------------------------------------------
(* Failures *)

\* The primary refused the insert for want of a resource, and the secondary
\* refused it too.
BothRefused ==
  /\ IsInsert
  /\ Len(trace) = 3
  /\ trace[2].res \notin {"OK", "FAIL"}
  /\ trace[3].res # "OK"

\* C21: when the primary's insert fails for want of memory and the
\* secondary's insert fails too, the insert returns the secondary's result,
\* which is not ResOK, and both children, and so the free addresses, are as
\* they were before the inserts (as the flush left them).
C21_SecondaryFailureSurfaced ==
  BothRefused =>
    /\ Returned
    /\ ret.res = trace[3].res
    /\ ret.res # "OK"
    /\ primary = flushed[1] /\ secondary = flushed[2]
    /\ Free = PreFree

\* Both children refused, the primary for want of memory.
C21_Witness ==
  /\ BothRefused
  /\ trace[2].res = "MEMORY"
  /\ ret.res = "FAIL"
  /\ secondary # {}

----------------------------------------------------------------------------
(* Disjointness *)

\* C22: as long as the caller has inserted only ranges disjoint from the
\* free addresses, no address is free in both children, after any sequence
\* of operations, whatever the flushes moved, wherever inserts and
\* fragments landed.
C22_ChildrenDisjoint ==
  disciplined => LandAddrs(primary) \cap LandAddrs(secondary) = {}

\* A disciplined caller's delete whose recovery put a fragment in the
\* secondary, next to the residue of a flush that the primary refused.
C22_Witness ==
  /\ disciplined
  /\ WholeRemoved
  /\ call.preP # {}
  /\ flushed[2] # {}
  /\ secondary # flushed[2]

----------------------------------------------------------------------------
(* Overlapping inserts *)

\* The range of the last insert overlapped an address that was free.
Overlapping == IsInsert /\ Addrs(call.range) \cap PreFree # {}

\* The children and their sizes are as they were before the call, up to
\* what the flush moved.
NothingInserted ==
  /\ primary = flushed[1] /\ secondary = flushed[2]
  /\ Free = PreFree
  /\ LandSize(primary) + LandSize(secondary)
       = LandSize(call.preP) + LandSize(call.preS)

\* C23 as claimed: an insert of a range that overlaps a free address, in
\* either child, returns a result other than ResOK and inserts nothing.
C23_OverlapAlwaysRefused ==
  Overlapping => ret.res # "OK" /\ NothingInserted

\* C23: an insert of a range that overlaps an address free in the primary
\* after the flush returns ResFAIL and inserts nothing.  A range that
\* overlaps only ranges left in the secondary is refused, by the secondary,
\* only if the primary refuses it for want of memory; if the primary accepts
\* it the insert returns ResOK, and the addresses of the overlap are then
\* free in both children and counted twice in the size.
C23_OverlapRefusedByItsChild ==
  Overlapping =>
    IF Addrs(call.range) \cap LandAddrs(flushed[1]) # {}
    THEN ret.res = "FAIL" /\ Len(trace) = 2 /\ NothingInserted
    ELSE IF trace[2].res = "OK"
    THEN /\ ret.res = "OK"
         /\ Addrs(call.range) \cap LandAddrs(flushed[2])
              \subseteq LandAddrs(primary) \cap LandAddrs(secondary)
         /\ LandSize(primary) + LandSize(secondary)
              = LandSize(call.preP) + LandSize(call.preS) + RangeSize(call.range)
         /\ Cardinality(Free) < Cardinality(PreFree) + RangeSize(call.range)
    ELSE ret.res = "FAIL" /\ Len(trace) = 3 /\ NothingInserted

\* A range left in the secondary by a refused flush, and an insert of a
\* range that overlaps it, which the primary accepted by coalescing it with
\* a neighbour: the insert returned ResOK and the size counts the overlap
\* twice.
C23_Witness ==
  /\ Overlapping
  /\ flushed[1] # {} /\ flushed[2] # {}
  /\ ret.res = "OK"
  /\ Cardinality(primary) = 1 /\ Cardinality(flushed[1]) = 1
  /\ LandSize(primary) + LandSize(secondary) > Cardinality(Free)

----------------------------------------------------------------------------
(* Failure atomicity of delete *)

----------------------------------------------------------------------------
(* iterate stops *)

\* The visitor returned FALSE while the primary was being iterated.
StoppedInPrimary == IsIterate /\ call.size \in 1..Cardinality(call.preP)

\* C25: if the visitor returns FALSE while the primary is being iterated,
\* iterate returns FALSE, the secondary is not iterated and none of its
\* ranges is visited; the secondary is iterated only after the iteration of
\* the primary returned TRUE.
C25_IterateShortCircuits ==
  IsIterate =>
    /\ Len(trace) \in {1, 2}
    /\ trace[1].land = "primary"
    /\ StoppedInPrimary =>
         /\ trace[1].res = "FALSE"
         /\ ret.res = "FALSE"
         /\ Len(trace) = 1
         /\ Len(ret.visits) = call.size
         /\ \A i \in 1..Len(ret.visits) : ret.visits[i].land = "primary"
    /\ Len(trace) = 2 =>
         /\ trace[1].res = "TRUE"
         /\ trace[2].land = "secondary"
         /\ ~StoppedInPrimary
    /\ (\E i \in 1..Len(ret.visits) : ret.visits[i].land = "secondary") =>
         Len(trace) = 2

\* A visitor that stopped at the first of two ranges of the primary, with a
\* range in the secondary.
C25_Witness ==
  /\ StoppedInPrimary
  /\ Cardinality(primary) = 2
  /\ secondary # {}
  /\ call.size = 1
  /\ ret.res = "FALSE"
  /\ Len(ret.visits) = 1

----------------------------------------------------------------------------
(* find in zones is untested *)

\* C26: in a build that checks critical assertions every call to
\* find_in_zones stops at the assertion at its entry, before any flush and
\* before any child is asked: both children are as they were and nothing is
\* returned.  So a call that returns was made in a build without them.
C26_ZonesNeverCompletes ==
  IsFindInZones =>
    /\ AverCriticalOn(variety) =>
         /\ halted = "AVER_CRITICAL(FALSE)"
         /\ trace = <<>>
         /\ flushed = <<call.preP, call.preS>>
         /\ primary = call.preP /\ secondary = call.preS
         /\ ~ret.found /\ ret.range = Unset
    /\ Returned => ~AverCriticalOn(variety)

\* A call stopped at entry although there was a range to flush and a range
\* to find.
C26_Witness ==
  /\ IsFindInZones
  /\ variety = "cool"
  /\ halted = "AVER_CRITICAL(FALSE)"
  /\ primary # {} /\ secondary # {}
  /\ InZones(primary, call.size, call.zoneSet) # {}

====
